---- MODULE Spec2Model ----
(***************************************************************************)
(* Model of src/app.py: a Flask service over one MariaDB table `todos`.    *)
(* One startup process runs init_db and then serves; request threads run   *)
(* list_todos (GET /todos) and add_todo (POST /todos).  Every database     *)
(* round trip is one step, so the threads interleave at statement level.   *)
(* The database server is the environment: a connection attempt may find   *)
(* it unreachable, and cursor creation or a statement may raise            *)
(* mysql.connector.Error.                                                  *)
(***************************************************************************)
EXTENDS Integers, Sequences, FiniteSets, TLC

\* ------------------------------------------------------------------ bounds
\* Number of requests the service accepts in one behaviour.
MaxRequests == 2
\* Largest retries argument of a get_db_connection call followed on its own.
MaxRetriesArg == 5

\* ------------------------------------------------------- program constants
\* get_db_connection(..., retries=5, ...)
Retries == 5
StatusOk == 200
StatusCreated == 201
StatusBadRequest == 400
StatusServerError == 500
\* werkzeug's answer when request.get_json() meets another content type
StatusUnsupportedMediaType == 415

Threads == {"t1", "t2"}
Main == "main"
Procs == Threads \cup {Main}
Methods == {"GET", "POST"}
TodosTable == "todos"

\* Request bodies of POST /todos.  A JSON object is a set of <<key, value>>
\* pairs with string values, a JSON array a set of <<index, value>> pairs with
\* string values, a JSON string its content, a JSON number its numeral (at most
\* nine digits in the mantissa and in the exponent), a "literal" one of true,
\* false, null; "unparsable" is a body that is not JSON, "untyped" a body sent
\* without the JSON content type.
JObject(f) == [kind |-> "object", fields |-> f, text |-> ""]
JArray(f) == [kind |-> "array", fields |-> f, text |-> ""]
JText(k, s) == [kind |-> k, fields |-> {}, text |-> s]
NoData == JObject({})

\* {}, {"title": ""}, {"note": "x"}, {"title": "milk"}, "my title", 5, 0.0,
\* ["title"], null, and the two bodies request.get_json() does not turn into a
\* value.
Datas == { JObject({}), JObject({<<"title", "">>}), JObject({<<"note", "x">>}),
           JObject({<<"title", "milk">>}),
           JText("string", "my title"), JText("number", "5"), JText("number", "0.0"),
           JArray({<<0, "title">>}), JText("literal", "null"),
           JText("unparsable", ""), JText("untyped", "") }

\* Schemas the server can hold when the process starts.
SeedRow == [id |-> 1, title |-> "seed", created_at |-> 1]
InitSchemas ==
    { [db |-> FALSE, tables |-> {}, rows |-> <<>>],
      [db |-> TRUE, tables |-> {}, rows |-> <<>>],
      [db |-> TRUE, tables |-> {TodosTable}, rows |-> <<>>],
      [db |-> TRUE, tables |-> {TodosTable}, rows |-> <<SeedRow>>] }

VARIABLES
    dbExists,        \* the database DB_CONFIG['database'] exists on the server
    tables,          \* names of the tables in that database
    rows,            \* rows of todos, in insertion order
    nextId,          \* AUTO_INCREMENT counter of todos (also the server clock tick)
    REQUEST_COUNT,   \* Counter: <<method, status>> -> value
    REQUEST_LATENCY, \* Histogram: method -> number of observations
    TODO_COUNT,      \* Gauge
    pc,              \* position of every process
    th,              \* locals and per-request history of every process
    started,         \* requests accepted so far
    freshRefresh,    \* some request counted and set the gauge after the last insert
    acked,           \* <<id, title>> of every item a 201 response has carried
    gc               \* one get_db_connection(with_database, retries) call on its own

vars == <<dbExists, tables, rows, nextId, REQUEST_COUNT, REQUEST_LATENCY,
          TODO_COUNT, pc, th, started, freshRefresh, acked, gc>>

dbvars == <<dbExists, tables, rows, nextId>>
metricvars == <<REQUEST_COUNT, REQUEST_LATENCY>>

\* ----------------------------------------------------------- pure helpers

\* todo['created_at'].isoformat(): the timestamp rendered as text.
Isoformat(t) == <<"iso", t>>

SerializeRow(r) == [id |-> r.id, title |-> r.title, created_at |-> Isoformat(r.created_at)]

SerializeRows(rs) == [i \in 1..Len(rs) |-> SerializeRow(rs[i])]

\* Variant: the id column does not advance.
NextAutoIncrementSame(n) == n

\* id INT AUTO_INCREMENT PRIMARY KEY: the value the next INSERT is given.
NextAutoIncrement(n) == n + 1

\* Variant: the listing query stops at the first row.
SelectAllFirst(rs) == [i \in 1..(IF Len(rs) > 0 THEN 1 ELSE 0) |-> rs[i]]

\* SELECT id, title, created_at FROM todos; fetchall()
SelectAll(rs) == rs

\* SELECT id, title, created_at FROM todos WHERE id = %s; fetchone()
SelectById(rs, id) == SelectSeq(rs, LAMBDA r : r.id = id)

\* get_db_connection(with_database=...) at each call site.
WithDatabase(site) == site # "init"

\* mysql.connector.connect(**config): fails when the server is unreachable, and
\* with "Unknown database" when the configured database does not exist.
ConnectSucceeds(up, withDb, dbEx) == up /\ (withDb => dbEx)

\* for attempt in range(retries): another attempt follows a failed one
\* (after time.sleep(delay)) iff attempt < retries - 1.
\* Variant: the wait is taken after the last attempt too.
MoreAttemptsInclusive(attempt, retries) == attempt < retries

\* if attempt < retries - 1: time.sleep(delay)
MoreAttemptsOf(attempt, retries) == attempt < retries - 1

\* Variant: the default call goes round once more.
MoreAttemptsOneMore(attempt) == attempt < Retries

MoreAttempts(attempt) == MoreAttemptsOf(attempt, Retries)

\* for attempt in range(retries)
InRange(attempt, retries) == attempt < retries

\* Variant: CREATE DATABASE without IF NOT EXISTS fails on an existing database.
CreateDatabasePlain(dbEx) == [err |-> dbEx, db |-> TRUE]

\* CREATE DATABASE IF NOT EXISTS
CreateDatabaseIfNotExists(dbEx) == [err |-> FALSE, db |-> TRUE]

\* Variant: CREATE TABLE without IF NOT EXISTS fails on an existing table.
CreateTablePlain(tbls) == [err |-> TodosTable \in tbls, tables |-> tbls \cup {TodosTable}]

\* CREATE TABLE IF NOT EXISTS todos (...)
CreateTableIfNotExists(tbls) == [err |-> FALSE, tables |-> tbls \cup {TodosTable}]

\* SHOW TABLES LIKE 'todos'; cursor.fetchone()
ShowTablesLike(tbls) == TodosTable \in tbls

\* A statement on todos raises ProgrammingError when the table is missing.
TableMissing(dbEx, tbls) == ~dbEx \/ TodosTable \notin tbls

\* request.get_json(): the value, BadRequest for a body that is not JSON, and
\* for a body without the JSON content type None or UnsupportedMediaType,
\* depending on the installed Flask.
GetJsonOutcomes(body) ==
    CASE body.kind = "unparsable" -> {"bad_request"}
      [] body.kind = "untyped" -> {"none", "unsupported"}
      [] OTHER -> {"value"}

Char(s, i) == SubSeq(s, i, i)

\* w in s, for two str
HasSubstring(s, w) ==
    \E i \in 1..(Len(s) - Len(w) + 1) : SubSeq(s, i, i + Len(w) - 1) = w

DigitChars == {"0", "1", "2", "3", "4", "5", "6", "7", "8", "9"}

DigitValue(c) ==
    CASE c = "0" -> 0 [] c = "1" -> 1 [] c = "2" -> 2 [] c = "3" -> 3 [] c = "4" -> 4
      [] c = "5" -> 5 [] c = "6" -> 6 [] c = "7" -> 7 [] c = "8" -> 8 [] c = "9" -> 9

\* The integer written by the digits of s[i..hi], after acc.
RECURSIVE DigitsValue(_, _, _, _)
DigitsValue(s, i, hi, acc) ==
    IF i > hi THEN acc
    ELSE DigitsValue(s, i + 1, hi,
                     IF Char(s, i) \in DigitChars THEN 10 * acc + DigitValue(Char(s, i))
                                                  ELSE acc)

\* Number of decimal digits of d >= 1.
RECURSIVE NumDigits(_)
NumDigits(d) == IF d < 10 THEN 1 ELSE 1 + NumDigits(d \div 10)

RECURSIVE Pow10(_)
Pow10(k) == IF k = 0 THEN 1 ELSE 10 * Pow10(k - 1)

\* Position of the exponent mark of a numeral, Len + 1 without one.
ExponentAt(s) ==
    LET E == {i \in 1..Len(s) : Char(s, i) \in {"e", "E"}} IN
    IF E = {} THEN Len(s) + 1 ELSE CHOOSE i \in E : \A j \in E : i <= j

\* json.loads of a numeral, then `not value`: int(...) for an integer numeral,
\* float(...) for one with a fraction or an exponent (NaN and the infinities
\* are not zero).  The value is d * 10^(x - f) for the mantissa digits d, the
\* exponent x and f fraction digits; float() rounds it to 0.0 when it is at
\* most 2^-1075 = 2.4703282292...e-324.
NumberIsZero(s) ==
    LET e == ExponentAt(s)
        Dots == {i \in 1..(e - 1) : Char(s, i) = "."}
        f == IF Dots = {} THEN 0 ELSE (e - 1) - (CHOOSE i \in Dots : TRUE)
        d == DigitsValue(s, 1, e - 1, 0)
        x == (IF e < Len(s) /\ Char(s, e + 1) = "-" THEN -1 ELSE 1)
                 * DigitsValue(s, e + 1, Len(s), 0)
        m == NumDigits(d) + x - f
    IN
    /\ s \notin {"NaN", "Infinity", "-Infinity"}
    /\ \/ d = 0
       \/ m <= -324
       \/ m = -323 /\ d * Pow10(9 - NumDigits(d)) <= 247032822

\* not data
Falsy(data) ==
    \/ data.kind \in {"object", "array"} /\ data.fields = {}
    \/ data.kind = "string" /\ data.text = ""
    \/ data.kind = "number" /\ NumberIsZero(data.text)
    \/ data.kind = "literal" /\ data.text \in {"false", "null"}

\* 'title' in data, where it raises no TypeError: a key of an object, an
\* element of an array, a substring of a string
ContainsTitle(data) ==
    \/ data.kind = "object" /\ \E p \in data.fields : p[1] = "title"
    \/ data.kind = "array" /\ \E p \in data.fields : p[2] = "title"
    \/ data.kind = "string" /\ HasSubstring(data.text, "title")

\* Line 157 raises TypeError: 'title' not in <number or True>, or
\* <string or list>['title'].
TypeErrorInCheck(data) ==
    /\ ~Falsy(data)
    /\ \/ data.kind \in {"number", "literal"}
       \/ data.kind \in {"string", "array"} /\ ContainsTitle(data)

\* not data or 'title' not in data or not data['title'], where no TypeError
InvalidData(data) ==
    \/ Falsy(data)
    \/ ~ContainsTitle(data)
    \/ data.kind = "object" /\ \E p \in data.fields : p[1] = "title" /\ p[2] = ""

TitleOf(data) == (CHOOSE p \in data.fields : p[1] = "title")[2]

\* Variant: init_db reports success without a connection.
InitOnNoConnectionTrue == TRUE

\* init_db, lines 45-47: if not connection: ... return False
InitOnNoConnection == FALSE

\* Variant: the guard passes init_db's result on after its connection failed.
GuardOnConnFailTrusting(initResult) == initResult

\* Variant: the guard reports ready after its connection failed.
GuardOnConnFailReady(initResult) == TRUE

\* ensure_db_initialized: result after a failed connection (init_db(); return False)
GuardOnConnFail(initResult) == FALSE

\* Variant: the guard reports ready whenever it found the table missing.
GuardOnMissingReady(initResult) == TRUE

\* ensure_db_initialized: result when the table is missing (return init_db())
GuardOnMissing(initResult) == initResult

\* Variant: the handlers go on whatever the guard reported.
GuardIgnored(guardResult) == TRUE

\* What the handlers do with the guard's result: if not ensure_db_initialized(): ... return
GuardPasses(guardResult) == guardResult

NoBody == [kind |-> "none", items |-> <<>>]
ErrorBody == [kind |-> "error", items |-> <<>>]

\* No get_db_connection call is being followed on its own.
GcIdle == [retries |-> 0, withDb |-> TRUE, attempt |-> 0, attempts |-> 0,
           failed |-> 0, waits |-> 0, result |-> "idle"]

\* The locals of a process and what its current request has done so far.
\*   faulted    a get_db_connection call returned None with the server down at
\*              its last attempt, or a cursor, statement or commit raised Error
\*   sawAbsent  a get_db_connection call returned None with the server up (the
\*              database is missing), or SHOW TABLES found no todos table
\*   initFault  the same as faulted, inside the current or last init_db call
\*   connected  some connection attempt succeeded
\*   conns      connections opened and not closed; gcloses counts close() calls
\*              on the guard's connection
\*   gconn, gcheck, guardRes  the guard's connection, its SHOW TABLES, its result
\*   initFrom, initRes        the schema init_db was entered on, its result
\*   hconn, hsql, inserted    the handler asked for a connection, issued its
\*              SELECT / INSERT, committed a row
\*   incs, obs  statuses given to REQUEST_COUNT, observations of REQUEST_LATENCY
NewLocals(m) ==
    [ method |-> m, site |-> "none", attempt |-> 0, initRet |-> "none",
      conns |-> {}, data |-> NoData, todos |-> <<>>, cnt |-> 0, newId |-> 0,
      guardRes |-> "none", valid |-> "none", faulted |-> FALSE,
      sawAbsent |-> FALSE, connected |-> FALSE, incs |-> <<>>, obs |-> 0,
      inserted |-> 0, hconn |-> FALSE, hsql |-> FALSE,
      initFrom |-> "none", initFault |-> FALSE, initRes |-> "none",
      gconn |-> "none", gcheck |-> "none", gcloses |-> 0,
      connCalls |-> 0, initCalls |-> 0, ackedAtStart |-> {},
      status |-> 0, outcome |-> "none", body |-> NoBody ]

InitApp ==
    /\ \E s \in InitSchemas :
          /\ dbExists = s.db
          /\ tables = s.tables
          /\ rows = s.rows
          /\ nextId = Len(s.rows) + 1
    /\ REQUEST_COUNT = [k \in Methods \X {StatusOk, StatusCreated, StatusBadRequest, StatusServerError} |-> 0]
    /\ REQUEST_LATENCY = [m \in Methods |-> 0]
    /\ TODO_COUNT = 0
    /\ pc = [p \in Procs |-> IF p = Main THEN "m_start" ELSE "idle"]
    /\ th = [p \in Procs |-> NewLocals("none")]
    /\ started = 0
    /\ freshRefresh = FALSE
    /\ acked = {}

Init == InitApp /\ gc = GcIdle


\* ------------------------------------------------- control-flow helpers
\* Each helper fixes pc', th' and the request metrics.

SchemaName(dbEx, tbls) ==
    IF ~dbEx THEN "nodb" ELSE IF TodosTable \in tbls THEN "table" ELSE "db"

Goto(p, t, label) ==
    /\ pc' = [pc EXCEPT ![p] = label]
    /\ th' = [th EXCEPT ![p] = t]
    /\ UNCHANGED metricvars

\* The locals of a handler are gone once it has returned or raised.
Returned(t) == [t EXCEPT !.todos = <<>>, !.cnt = 0, !.newId = 0, !.initRet = "none"]

\* REQUEST_COUNT.labels(method, '/todos', status).inc();
\* REQUEST_LATENCY.labels(method, '/todos').observe(latency); return jsonify(body), status
Respond(p, t, status, body) ==
    /\ REQUEST_COUNT' = [REQUEST_COUNT EXCEPT ![<<t.method, status>>] = @ + 1]
    /\ REQUEST_LATENCY' = [REQUEST_LATENCY EXCEPT ![t.method] = @ + 1]
    /\ th' = [th EXCEPT ![p] = [Returned(t) EXCEPT !.incs = Append(@, status),
                                                   !.obs = @ + 1, !.status = status,
                                                   !.outcome = "response", !.body = body]]
    /\ pc' = [pc EXCEPT ![p] = "done"]

\* The except clause recorded the metrics and built the 500 response, then the
\* finally clause raised UnboundLocalError (cursor was never bound): the
\* exception replaces the return value and leaves the handler.
RespondThenRaise(p, t) ==
    /\ REQUEST_COUNT' = [REQUEST_COUNT EXCEPT ![<<t.method, StatusServerError>>] = @ + 1]
    /\ REQUEST_LATENCY' = [REQUEST_LATENCY EXCEPT ![t.method] = @ + 1]
    /\ th' = [th EXCEPT ![p] = [Returned(t) EXCEPT !.incs = Append(@, StatusServerError),
                                                   !.obs = @ + 1,
                                                   !.status = StatusServerError,
                                                   !.outcome = "exception"]]
    /\ pc' = [pc EXCEPT ![p] = "done"]

\* A non-Error exception leaves the handler: Flask answers 500 itself and the
\* handler records no metric.  At startup the process dies instead.
Raise(p, t) ==
    /\ th' = [th EXCEPT ![p] = [Returned(t) EXCEPT !.status = StatusServerError,
                                                   !.outcome = "exception"]]
    /\ pc' = [pc EXCEPT ![p] = IF p = Main THEN "crashed" ELSE "done"]
    /\ UNCHANGED metricvars

\* An exception raised by or inside request.get_json() or the body test
\* leaves add_todo: Flask answers with the exception's status (500 for a
\* TypeError) and the handler records no metric.
RaiseHttp(p, t, status) ==
    /\ th' = [th EXCEPT ![p] = [Returned(t) EXCEPT !.status = status,
                                                   !.outcome = "exception"]]
    /\ pc' = [pc EXCEPT ![p] = "done"]
    /\ UNCHANGED metricvars

\* connection = get_db_connection(...): enter the retry loop for a call site.
CallConnect(p, t, site) ==
    Goto(p, [t EXCEPT !.site = site, !.attempt = 0, !.connCalls = @ + 1,
                      !.hconn = @ \/ site = "handler"], "connect")

\* init_db() called from __main__, from the guard's connection-failure branch
\* or from its table-missing branch.
CallInit(p, t, ret) ==
    CallConnect(p, [t EXCEPT !.initRet = ret, !.initFault = FALSE, !.initCalls = @ + 1,
                             !.initFrom = SchemaName(dbExists, tables)], "init")

\* Variant: the guard keeps its connection while init_db runs.
KeepOpenBeforeInit(t) == t

\* ensure_db_initialized, line 99: connection.close() before return init_db()
CloseBeforeInit(t) == [t EXCEPT !.conns = @ \ {"guard"}, !.gcloses = @ + 1]

\* ensure_db_initialized, lines 105-107: if connection.is_connected(): connection.close()
\* alive: the server side of a connection the code has not closed still answers.
CloseIfConnected(t, alive) ==
    IF "guard" \in t.conns /\ alive
    THEN [t EXCEPT !.conns = @ \ {"guard"}, !.gcloses = @ + 1]
    ELSE t

\* ensure_db_initialized returned res to list_todos / add_todo.
GuardReturn(p, t, res) ==
    LET t2 == [t EXCEPT !.guardRes = IF res THEN "true" ELSE "false"] IN
    IF GuardPasses(res)
    THEN IF t.method = "GET" THEN CallConnect(p, t2, "handler")
                             ELSE Goto(p, t2, "validate")
    ELSE Respond(p, t2, StatusServerError, ErrorBody)

\* init_db returned res to its caller.
InitReturn(p, t0, res) ==
    LET t == [t0 EXCEPT !.initRet = "none", !.initRes = IF res THEN "true" ELSE "false"] IN
    CASE t0.initRet = "main" ->
            /\ pc' = [pc EXCEPT ![p] = "serving"]
            \* if not init_db(): print(...) -- the result is not kept
            /\ th' = [th EXCEPT ![p] = [NewLocals("none") EXCEPT !.conns = t.conns]]
            /\ UNCHANGED metricvars
      [] t0.initRet = "guard_fail" -> GuardReturn(p, t, GuardOnConnFail(res))
      [] OTHER -> GuardReturn(p, CloseIfConnected(t, TRUE), GuardOnMissing(res))

\* ----------------------------------------------------------------- actions

\* if __name__ == '__main__': init_db() is called before app.run.
MainStart ==
    /\ pc[Main] = "m_start"
    /\ CallInit(Main, th[Main], "main")
    /\ UNCHANGED <<dbvars, TODO_COUNT, started, freshRefresh, acked, gc>>

\* A request is routed to list_todos or add_todo, which first calls
\* ensure_db_initialized, which first calls get_db_connection().
Start(p, m) ==
    /\ pc[Main] = "serving"
    /\ pc[p] \in {"idle", "done"}
    /\ started < MaxRequests
    /\ started' = started + 1
    /\ CallConnect(p, [NewLocals(m) EXCEPT !.ackedAtStart = acked], "guard")
    /\ UNCHANGED <<dbvars, TODO_COUNT, freshRefresh, acked, gc>>

\* One iteration of the retry loop of get_db_connection, the server being
\* reachable or not as ups allows.  A call that returns None with the server
\* down at its last attempt has failed for that reason (faulted), one that
\* returns None with the server up has found the database missing (sawAbsent);
\* a failed attempt that is followed by another leaves only the attempt count.
ConnectAttemptOn(p, ups) ==
    /\ pc[p] = "connect"
    /\ \E up \in ups :
        LET t == th[p]
            ok == ConnectSucceeds(up, WithDatabase(t.site), dbExists)
            tn == [t EXCEPT !.faulted = @ \/ ~up, !.sawAbsent = @ \/ up,
                            !.initFault = @ \/ (t.site = "init" /\ ~up),
                            !.site = "none", !.attempt = 0]
        IN
        /\ UNCHANGED <<dbvars, TODO_COUNT, started, freshRefresh, acked, gc>>
        /\ IF ok
           THEN Goto(p, [t EXCEPT !.conns = @ \cup {t.site}, !.connected = TRUE,
                                !.site = "none", !.attempt = 0,
                                !.gconn = IF t.site = "guard" THEN "ok" ELSE @],
                     CASE t.site = "guard" -> "g_check"
                       [] t.site = "init" -> "i_createdb"
                       [] t.site = "count" -> "c_count"
                       [] OTHER -> IF t.method = "GET" THEN "h_select" ELSE "h_insert")
           ELSE IF MoreAttempts(t.attempt)
           THEN Goto(p, [t EXCEPT !.attempt = @ + 1], "connect")
           ELSE CASE t.site = "guard" ->
                         CallInit(p, [tn EXCEPT !.gconn = "failed"], "guard_fail")
                  [] t.site = "init" -> InitReturn(p, tn, InitOnNoConnection)
                  [] t.site = "count" -> Goto(p, tn, "h_respond")
                  [] OTHER -> Respond(p, tn, StatusServerError, ErrorBody)

ConnectAttempt(p) == ConnectAttemptOn(p, BOOLEAN)

\* ensure_db_initialized, lines 94-98 and 101-107: cursor, SHOW TABLES LIKE
\* 'todos', fetchone; with a row or an Error the guard returns through its
\* finally clause, where is_connected() may find the connection gone (after an
\* Error, or lost since the statement) and then leaves the object as it is.
GuardCheck(p) ==
    /\ pc[p] = "g_check"
    /\ UNCHANGED <<dbvars, TODO_COUNT, started, freshRefresh, acked, gc>>
    /\ \E f \in {"ok", "cursor_err", "stmt_err"} :
        LET t == th[p] IN
        IF f = "ok" /\ ~ShowTablesLike(tables)
        THEN Goto(p, [t EXCEPT !.sawAbsent = TRUE, !.gcheck = "absent"], "g_close")
        ELSE \E alive \in BOOLEAN :
                IF f # "ok"
                THEN GuardReturn(p, CloseIfConnected([t EXCEPT !.faulted = TRUE,
                                                               !.gcheck = "error"], alive),
                                 FALSE)
                ELSE GuardReturn(p, CloseIfConnected([t EXCEPT !.gcheck = "present"], alive),
                                 TRUE)

\* ensure_db_initialized, lines 99-100: connection.close(), then init_db() is
\* entered and calls get_db_connection(with_database=False).
GuardClose(p) ==
    /\ pc[p] = "g_close"
    /\ CallInit(p, CloseBeforeInit(th[p]), "guard_missing")
    /\ UNCHANGED <<dbvars, TODO_COUNT, started, freshRefresh, acked, gc>>

\* init_db, lines 50-51: cursor, CREATE DATABASE IF NOT EXISTS.  The statement
\* takes effect on the server at once.
InitCreateDb(p) ==
    /\ pc[p] = "i_createdb"
    /\ \E f \in {"ok", "cursor_err", "stmt_err"} :
        LET t == th[p]
            closed == [t EXCEPT !.conns = @ \ {"init"}, !.faulted = TRUE, !.initFault = TRUE]
            r == CreateDatabaseIfNotExists(dbExists)
        IN
        /\ UNCHANGED <<tables, rows, nextId, TODO_COUNT, started, freshRefresh, acked, gc>>
        /\ CASE f = "cursor_err" ->
                  \* finally: cursor.close() raises UnboundLocalError before
                  \* connection.close() is reached
                  /\ dbExists' = dbExists
                  /\ Raise(p, [t EXCEPT !.faulted = TRUE, !.initFault = TRUE])
             [] f = "stmt_err" ->
                  /\ dbExists' = dbExists
                  /\ InitReturn(p, closed, FALSE)
             [] OTHER ->
                  /\ dbExists' = (IF r.err THEN dbExists ELSE r.db)
                  /\ IF r.err THEN InitReturn(p, [t EXCEPT !.conns = @ \ {"init"}], FALSE)
                              ELSE Goto(p, t, "i_commitdb")

\* init_db, line 52: connection.commit() after CREATE DATABASE.
InitCommitDb(p) ==
    /\ pc[p] = "i_commitdb"
    /\ UNCHANGED <<dbvars, TODO_COUNT, started, freshRefresh, acked, gc>>
    /\ \E f \in {"ok", "commit_err"} :
        LET t == th[p]
            closed == [t EXCEPT !.conns = @ \ {"init"}, !.faulted = TRUE, !.initFault = TRUE]
        IN
        IF f = "commit_err" THEN InitReturn(p, closed, FALSE)
                            ELSE Goto(p, t, "i_createtable")

\* init_db, lines 54-62: USE, CREATE TABLE IF NOT EXISTS todos.  The statement
\* takes effect on the server at once.
InitCreateTable(p) ==
    /\ pc[p] = "i_createtable"
    /\ \E f \in {"ok", "stmt_err"} :
        LET t == th[p]
            closed == [t EXCEPT !.conns = @ \ {"init"}]
            r == CreateTableIfNotExists(tables)
        IN
        /\ UNCHANGED <<dbExists, rows, nextId, TODO_COUNT, started, freshRefresh, acked, gc>>
        /\ IF f = "stmt_err"
           THEN /\ tables' = tables
                /\ InitReturn(p, [closed EXCEPT !.faulted = TRUE, !.initFault = TRUE], FALSE)
           ELSE /\ tables' = (IF r.err THEN tables ELSE r.tables)
                /\ IF r.err THEN InitReturn(p, closed, FALSE)
                            ELSE Goto(p, t, "i_committable")

\* init_db, lines 63-71: connection.commit() after CREATE TABLE, return True
\* (False on Error), finally close.
InitCommitTable(p) ==
    /\ pc[p] = "i_committable"
    /\ UNCHANGED <<dbvars, TODO_COUNT, started, freshRefresh, acked, gc>>
    /\ \E f \in {"ok", "commit_err"} :
        LET t == th[p]
            closed == [t EXCEPT !.conns = @ \ {"init"}]
        IN
        IF f = "commit_err"
        THEN InitReturn(p, [closed EXCEPT !.faulted = TRUE, !.initFault = TRUE], FALSE)
        ELSE InitReturn(p, closed, TRUE)


\* add_todo, lines 156-163: data = request.get_json(), validation, then
\* get_db_connection().
Validate(p) ==
    /\ pc[p] = "validate"
    /\ \E d \in Datas : \E o \in GetJsonOutcomes(d) :
        LET t == [th[p] EXCEPT !.data = d]
            raised == [t EXCEPT !.valid = "raised"]
        IN
        CASE o = "bad_request" -> RaiseHttp(p, raised, StatusBadRequest)
          [] o = "unsupported" -> RaiseHttp(p, raised, StatusUnsupportedMediaType)
          [] o = "none" ->
                Respond(p, [t EXCEPT !.valid = "rejected"], StatusBadRequest, ErrorBody)
          [] o = "value" /\ TypeErrorInCheck(d) ->
                RaiseHttp(p, raised, StatusServerError)
          [] o = "value" /\ ~TypeErrorInCheck(d) /\ InvalidData(d) ->
                Respond(p, [t EXCEPT !.valid = "rejected"], StatusBadRequest, ErrorBody)
          [] OTHER -> CallConnect(p, [t EXCEPT !.valid = "ok"], "handler")
    /\ UNCHANGED <<dbvars, TODO_COUNT, started, freshRefresh, acked, gc>>

\* list_todos, lines 126-132 (and 137-144 on an error): cursor, SELECT,
\* fetchall, isoformat, then update_todo_count() calls get_db_connection().
HandlerSelect(p) ==
    /\ pc[p] = "h_select"
    /\ \E f \in {"ok", "cursor_err", "stmt_err"} :
        LET t == th[p]
            closed == [t EXCEPT !.conns = @ \ {"handler"}]
        IN
        CASE f = "cursor_err" -> RespondThenRaise(p, [t EXCEPT !.faulted = TRUE])
          [] f = "stmt_err" \/ TableMissing(dbExists, tables) ->
                Respond(p, [closed EXCEPT !.faulted = @ \/ f = "stmt_err", !.hsql = TRUE],
                        StatusServerError, ErrorBody)
          [] OTHER ->
                CallConnect(p, [t EXCEPT !.hsql = TRUE, !.todos = SerializeRows(SelectAll(rows))], "count")
    /\ UNCHANGED <<dbvars, TODO_COUNT, started, freshRefresh, acked, gc>>

\* The row an INSERT of this request holds in its open transaction.
PendingRow(t) == [id |-> t.newId, title |-> TitleOf(t.data), created_at |-> t.newId]

\* add_todo, lines 170-173 (and 189-196 on an error): cursor, INSERT.  The
\* statement takes its AUTO_INCREMENT value at once; the row stays in the
\* connection's transaction until the commit.
HandlerInsert(p) ==
    /\ pc[p] = "h_insert"
    /\ \E f \in {"ok", "cursor_err", "stmt_err"} :
        LET t == th[p]
            closed == [t EXCEPT !.conns = @ \ {"handler"}]
        IN
        CASE f = "cursor_err" ->
                /\ UNCHANGED nextId
                /\ RespondThenRaise(p, [t EXCEPT !.faulted = TRUE])
          [] f = "stmt_err" \/ TableMissing(dbExists, tables) ->
                /\ UNCHANGED nextId
                /\ Respond(p, [closed EXCEPT !.faulted = @ \/ f = "stmt_err", !.hsql = TRUE],
                           StatusServerError, ErrorBody)
          [] OTHER ->
                /\ nextId' = NextAutoIncrement(nextId)
                /\ Goto(p, [t EXCEPT !.hsql = TRUE, !.newId = nextId], "h_commit")
    /\ UNCHANGED <<dbExists, tables, rows, freshRefresh, TODO_COUNT, started, acked, gc>>

\* add_todo, line 174 (and 189-196 on an error): connection.commit().  A commit
\* that raises Error was rolled back, or was applied with its reply lost.
HandlerCommit(p) ==
    /\ pc[p] = "h_commit"
    /\ \E f \in {"ok", "commit_err", "commit_lost"} :
        LET t == th[p]
            closed == [t EXCEPT !.conns = @ \ {"handler"}, !.faulted = TRUE]
        IN
        CASE f = "commit_err" ->
                /\ UNCHANGED <<rows, freshRefresh>>
                /\ Respond(p, closed, StatusServerError, ErrorBody)
          [] f = "commit_lost" ->
                /\ rows' = Append(rows, PendingRow(t))
                /\ freshRefresh' = FALSE
                /\ Respond(p, [closed EXCEPT !.inserted = @ + 1], StatusServerError, ErrorBody)
          [] OTHER ->
                /\ rows' = Append(rows, PendingRow(t))
                /\ freshRefresh' = FALSE
                /\ Goto(p, [t EXCEPT !.inserted = @ + 1], "h_readback")
    /\ UNCHANGED <<dbExists, tables, nextId, TODO_COUNT, started, acked, gc>>

\* add_todo, lines 176-184: read the new row back, build todo_dict, then
\* update_todo_count() calls get_db_connection().
HandlerReadBack(p) ==
    /\ pc[p] = "h_readback"
    /\ \E f \in {"ok", "stmt_err"} :
        LET t == th[p]
            closed == [t EXCEPT !.conns = @ \ {"handler"}]
            found == SelectById(rows, t.newId)
        IN
        IF f = "stmt_err" \/ TableMissing(dbExists, tables)
        THEN Respond(p, [closed EXCEPT !.faulted = @ \/ f = "stmt_err"],
                     StatusServerError, ErrorBody)
        ELSE CallConnect(p, [t EXCEPT !.todos = SerializeRows(found)], "count")
    /\ UNCHANGED <<dbvars, TODO_COUNT, started, freshRefresh, acked, gc>>

\* update_todo_count, lines 77-80: cursor, SELECT COUNT(*), fetchone.
CountQuery(p) ==
    /\ pc[p] = "c_count"
    /\ \E f \in {"ok", "cursor_err", "stmt_err"} :
        LET t == th[p] IN
        CASE f = "cursor_err" ->
                \* UnboundLocalError from update_todo_count's finally: its connection
                \* stays open; the handler's finally closes the handler's connection
                Raise(p, [t EXCEPT !.conns = @ \ {"handler"}, !.faulted = TRUE])
          [] f = "stmt_err" \/ TableMissing(dbExists, tables) ->
                \* finally of lines 82-84, then finally of the handler
                Respond(p, [t EXCEPT !.conns = @ \ {"count", "handler"},
                                     !.faulted = @ \/ f = "stmt_err"],
                        StatusServerError, ErrorBody)
          [] OTHER -> Goto(p, [t EXCEPT !.cnt = Len(rows)], "c_set")
    /\ UNCHANGED <<dbvars, TODO_COUNT, started, freshRefresh, acked, gc>>

\* update_todo_count, lines 81-84: TODO_COUNT.set(count), close.
GaugeSet(p) ==
    /\ pc[p] = "c_set"
    /\ TODO_COUNT' = th[p].cnt
    /\ freshRefresh' = (freshRefresh \/ th[p].cnt = Len(rows))
    /\ Goto(p, [th[p] EXCEPT !.conns = @ \ {"count"}], "h_respond")
    /\ UNCHANGED <<dbvars, started, acked, gc>>

\* list_todos lines 133-136 and 142-144, add_todo lines 185-188 and 194-196.
HandlerRespond(p) ==
    /\ pc[p] = "h_respond"
    /\ LET t == [th[p] EXCEPT !.conns = @ \ {"handler"}] IN
       IF t.method = "GET"
       THEN /\ Respond(p, t, StatusOk, [kind |-> "list", items |-> t.todos])
            /\ acked' = acked
       ELSE /\ Respond(p, t, StatusCreated, [kind |-> "item", items |-> t.todos])
            /\ acked' = acked \cup {<<t.todos[i].id, t.todos[i].title>> : i \in 1..Len(t.todos)}
    /\ UNCHANGED <<dbvars, TODO_COUNT, started, freshRefresh, gc>>

Next ==
    \/ MainStart
    \/ \E p \in Threads, m \in Methods : Start(p, m)
    \/ \E p \in Procs : ConnectAttempt(p)
    \/ \E p \in Threads : GuardCheck(p)
    \/ \E p \in Threads : GuardClose(p)
    \/ \E p \in Procs : InitCreateDb(p)
    \/ \E p \in Procs : InitCommitDb(p)
    \/ \E p \in Procs : InitCreateTable(p)
    \/ \E p \in Procs : InitCommitTable(p)
    \/ \E p \in Threads : Validate(p)
    \/ \E p \in Threads : HandlerSelect(p)
    \/ \E p \in Threads : HandlerInsert(p)
    \/ \E p \in Threads : HandlerCommit(p)
    \/ \E p \in Threads : HandlerReadBack(p)
    \/ \E p \in Threads : CountQuery(p)
    \/ \E p \in Threads : GaugeSet(p)
    \/ \E p \in Threads : HandlerRespond(p)

Spec == Init /\ [][Next]_vars


\* ------------------------------------- get_db_connection followed on its own

\* get_db_connection(with_database, retries) is entered: with an empty range
\* the loop body never runs and line 40 returns None.
GcCall(w, n) == [retries |-> n, withDb |-> w, attempt |-> 0, attempts |-> 0,
                 failed |-> 0, waits |-> 0,
                 result |-> IF InRange(0, n) THEN "running" ELSE "none"]

\* The retries arguments followed: a negative one, 0, and 1..MaxRetriesArg.
RetriesArgs == -1..MaxRetriesArg

ConnInit ==
    /\ InitApp
    /\ \E w \in BOOLEAN, n \in RetriesArgs : gc = GcCall(w, n)

\* One iteration of the loop: connect; on Error wait unless this was the last
\* attempt, and go round again while the range lasts; return None after it.
GcAttempt ==
    /\ gc.result = "running"
    /\ InRange(gc.attempt, gc.retries)
    /\ \E up \in BOOLEAN :
          IF ConnectSucceeds(up, gc.withDb, dbExists)
          THEN gc' = [gc EXCEPT !.attempts = @ + 1, !.result = "conn"]
          ELSE gc' = [gc EXCEPT !.attempts = @ + 1, !.failed = @ + 1,
                                !.waits = IF MoreAttemptsOf(gc.attempt, gc.retries)
                                          THEN @ + 1 ELSE @,
                                !.attempt = @ + 1,
                                !.result = IF InRange(gc.attempt + 1, gc.retries)
                                           THEN "running" ELSE "none"]
    /\ UNCHANGED <<dbvars, metricvars, TODO_COUNT, pc, th, started,
                   freshRefresh, acked>>

ConnNext == GcAttempt

ConnSpec == ConnInit /\ [][ConnNext]_vars

\* Every thread the scheduler runs keeps running, and every database call
\* returns (with a result or an error) : each process takes its next step.
ProcStep(p) ==
    \/ ConnectAttempt(p) \/ InitCreateDb(p) \/ InitCommitDb(p)
    \/ InitCreateTable(p) \/ InitCommitTable(p)
    \/ (p = Main /\ MainStart)
    \/ (p \in Threads /\ (GuardCheck(p) \/ GuardClose(p) \/ Validate(p)
                           \/ HandlerSelect(p)
                           \/ HandlerInsert(p) \/ HandlerCommit(p) \/ HandlerReadBack(p)
                           \/ CountQuery(p) \/ GaugeSet(p) \/ HandlerRespond(p)))

FairSpec == Spec /\ \A p \in Procs : WF_vars(ProcStep(p))

\* The service while the server answers every request thread: startup may still
\* have met an unreachable server or a failing statement, but no connection
\* attempt of a request finds the server down and no cursor or statement of a
\* request raises Error.
HealthyRequests == \A p \in Threads : ~th[p].faulted

\* The server as a process finds it: down or up at startup, up for a request.
Reachable(p) == IF p = Main THEN BOOLEAN ELSE {TRUE}

HealthyNext ==
    \/ MainStart /\ HealthyRequests'
    \/ \E p \in Threads, m \in Methods : Start(p, m) /\ HealthyRequests'
    \/ \E p \in Procs : ConnectAttemptOn(p, Reachable(p)) /\ HealthyRequests'
    \/ \E p \in Threads : GuardCheck(p) /\ HealthyRequests'
    \/ \E p \in Threads : GuardClose(p) /\ HealthyRequests'
    \/ \E p \in Procs : InitCreateDb(p) /\ HealthyRequests'
    \/ \E p \in Procs : InitCommitDb(p) /\ HealthyRequests'
    \/ \E p \in Procs : InitCreateTable(p) /\ HealthyRequests'
    \/ \E p \in Procs : InitCommitTable(p) /\ HealthyRequests'
    \/ \E p \in Threads : Validate(p) /\ HealthyRequests'
    \/ \E p \in Threads : HandlerSelect(p) /\ HealthyRequests'
    \/ \E p \in Threads : HandlerInsert(p) /\ HealthyRequests'
    \/ \E p \in Threads : HandlerCommit(p) /\ HealthyRequests'
    \/ \E p \in Threads : HandlerReadBack(p) /\ HealthyRequests'
    \/ \E p \in Threads : CountQuery(p) /\ HealthyRequests'
    \/ \E p \in Threads : GaugeSet(p) /\ HealthyRequests'
    \/ \E p \in Threads : HandlerRespond(p) /\ HealthyRequests'

HealthyProcStep(p) ==
    \/ ConnectAttemptOn(p, Reachable(p)) \/ InitCreateDb(p) \/ InitCommitDb(p)
    \/ InitCreateTable(p) \/ InitCommitTable(p)
    \/ (p = Main /\ MainStart)
    \/ (p \in Threads /\ (GuardCheck(p) \/ GuardClose(p) \/ Validate(p)
                           \/ HandlerSelect(p)
                           \/ HandlerInsert(p) \/ HandlerCommit(p) \/ HandlerReadBack(p)
                           \/ CountQuery(p) \/ GaugeSet(p) \/ HandlerRespond(p)))

HealthySpec ==
    /\ Init
    /\ [][HealthyNext]_vars
    /\ \A p \in Procs : WF_vars(HealthyProcStep(p) /\ HealthyRequests')

\* ------------------------------------------------------------------ claims

Done(p) == pc[p] = "done"
InFlight(p) == pc[p] \notin {"idle", "done"}
Success(p) == th[p].outcome = "response" /\ th[p].status \in {StatusOk, StatusCreated}
Quiescent == pc[Main] = "serving" /\ \A p \in Threads : ~InFlight(p)
\* The body carries a non-empty title.
Titled(data) == data.kind = "object" /\ \E x \in data.fields : x[1] = "title" /\ x[2] # ""

\* C1: a GET or valid POST that detected the missing schema, none of whose
\* get_db_connection calls failed on an unreachable server and none of whose
\* statements failed, is answered 200 / 201.
C1_SchemaAbsenceInvisible ==
    \A p \in Threads :
        (Done(p) /\ th[p].sawAbsent /\ ~th[p].faulted /\ th[p].valid \notin {"rejected", "raised"})
            => Success(p)

\* The database exists when the guard of a request connects, with or without
\* the todos table: every such request that meets no server fault ends with a
\* success status (a rejected body aside), no init_db it ran reported a failed
\* create, and the table exists exactly once.
C2_Safety ==
    \A p \in Threads :
        (Done(p) /\ th[p].gconn = "ok" /\ ~th[p].faulted /\ th[p].valid \notin {"rejected", "raised"})
            => (Success(p) /\ th[p].initRes # "false" /\ tables = {TodosTable})

\* C2: concurrent first requests against a database with no todos table all
\* succeed with exactly one table afterwards (C2_Safety, under every
\* interleaving of the guard checks and init_db calls), and every request in
\* flight eventually completes.
C2_ConcurrentFirstRequests ==
    /\ []C2_Safety
    /\ \A p \in Threads : InFlight(p) ~> Done(p)

\* Both threads found the table missing, both ran init_db from the database
\* without the table (the second create met the table of the first), both
\* succeeded.
C2_Witness ==
    \A p \in Threads :
        /\ Done(p) /\ th[p].gcheck = "absent" /\ th[p].initFrom = "db"
        /\ th[p].initRes = "true" /\ ~th[p].faulted /\ Success(p)

\* C3: a request during which no connection attempt succeeded is answered 500
\* with an error payload, by the handler's own return.
C3_ConnectionExhaustion ==
    \A p \in Threads :
        (Done(p) /\ ~th[p].connected)
            => /\ th[p].status = StatusServerError
               /\ th[p].outcome = "response"
               /\ th[p].body = ErrorBody

\* A POST and a GET completed without any successful connection.
C3_Witness ==
    /\ \E p \in Threads : Done(p) /\ ~th[p].connected /\ th[p].method = "POST"
    /\ \E p \in Threads : Done(p) /\ ~th[p].connected /\ th[p].method = "GET"

\* C4: a POST whose body has no non-empty title, read after the guard reported
\* ready, is answered 400 (by the handler or by the framework), and the request
\* acquired no connection for the insert and inserted no row.
C4_ValidationRejects ==
    \A p \in Threads :
        (Done(p) /\ th[p].method = "POST" /\ th[p].guardRes = "true"
                 /\ th[p].valid # "none" /\ ~Titled(th[p].data))
            => /\ th[p].status = StatusBadRequest
               /\ th[p].inserted = 0
               /\ ~th[p].hsql

\* C5: once every request has completed and some request has counted the rows
\* and set the gauge after the last insert, the gauge equals the row count.
C5_GaugeAccuracy ==
    (Quiescent /\ freshRefresh) => TODO_COUNT = Len(rows)

\* C6: every completed request incremented REQUEST_COUNT exactly once, with the
\* status of its response, and observed REQUEST_LATENCY exactly once.
C6_MetricsOncePerRequest ==
    \A p \in Threads :
        Done(p) => (th[p].incs = <<th[p].status>> /\ th[p].obs = 1)

\* C7: no request whose body test passed or was not reached (so that only a
\* database-layer error can have disturbed it) ends with an exception leaving
\* list_todos or add_todo.
C7_NoUnhandledException ==
    \A p \in Threads : (Done(p) /\ th[p].valid # "raised") => th[p].outcome = "response"

\* C8: when a request has completed, or init_db has returned or raised at
\* startup, no connection it opened is still open.
C8_ConnectionsClosed ==
    \A p \in Procs : pc[p] \in {"done", "serving", "crashed"} => th[p].conns = {}

\* C9: guard, then validation (POST), then connection, then SQL; a failed guard
\* or a rejected body ends the request with no handler connection and no SQL.
C9_StepOrder ==
    \A p \in Threads :
        /\ th[p].valid # "none" => (th[p].method = "POST" /\ th[p].guardRes = "true")
        /\ th[p].hconn => (th[p].guardRes = "true"
                             /\ (th[p].method = "POST" => th[p].valid = "ok"))
        /\ th[p].hsql => th[p].hconn
        /\ (th[p].guardRes = "false" \/ th[p].valid \in {"rejected", "raised"})
              => (Done(p) /\ ~th[p].hconn /\ ~th[p].hsql /\ th[p].inserted = 0)

\* One request stopped at a failed guard, another reached its SQL.
C9_Witness ==
    /\ \E p \in Threads : Done(p) /\ th[p].guardRes = "false" /\ th[p].method = "POST"
    /\ \E p \in Threads : Done(p) /\ th[p].hsql /\ th[p].valid = "ok"

InitLabels == {"i_createdb", "i_commitdb", "i_createtable", "i_committable"}
InInit(p) == pc[p] \in InitLabels \/ (pc[p] = "connect" /\ th[p].site = "init")

\* A fault-free init_db call returned true; after a true result the schema is
\* complete.
C10_InitResult ==
    \A p \in Threads :
        /\ (th[p].initRes # "none" /\ ~th[p].initFault) => th[p].initRes = "true"
        /\ th[p].initRes = "true" => (dbExists /\ tables = {TodosTable})

\* A step of init_db leaves the rows alone and removes nothing from the schema.
C10_InitStep ==
    \A p \in Procs :
        (InInit(p) /\ (pc'[p] # pc[p] \/ th'[p] # th[p]))
            => /\ rows' = rows
               /\ nextId' = nextId
               /\ (dbExists => dbExists')
               /\ tables \subseteq tables'

\* C10: an init_db call that meets a reachable server and no statement error
\* returns true from any schema, the complete one included (no duplicate-object
\* error); after a call returned true the database and the table exist; and no
\* step of init_db changes the rows or removes the database or the table.
C10_InitIdempotent == []C10_InitResult /\ [][C10_InitStep]_vars

\* A second init_db call: it started on the complete schema and returned true,
\* with the rows it found still there.
C10_Witness ==
    \E p \in Threads :
        /\ th[p].initFrom = "table" /\ th[p].initRes = "true"
        /\ Len(rows) > 0

\* ------------------------------------------------------------------- C11

Created(p) == Done(p) /\ th[p].method = "POST" /\ th[p].outcome = "response"
                      /\ th[p].status = StatusCreated
Listed(p) == Done(p) /\ th[p].method = "GET" /\ th[p].outcome = "response"
                     /\ th[p].status = StatusOk

\* C11: every GET that started after a 201 response and is answered 200 lists
\* the created item with the id and title the 201 carried; the 201 body is the
\* one row of the table with the new id, and its title is the submitted title.
C11_ReadYourWrites ==
    \A p \in Threads :
        /\ Listed(p) =>
              \A a \in th[p].ackedAtStart :
                  \E i \in 1..Len(th[p].body.items) :
                      /\ th[p].body.items[i].id = a[1]
                      /\ th[p].body.items[i].title = a[2]
        /\ Created(p) =>
              /\ th[p].body.kind = "item"
              /\ Len(th[p].body.items) = 1
              /\ th[p].body.items[1].title = TitleOf(th[p].data)
              /\ <<th[p].body.items[1].id, th[p].body.items[1].title>> \in acked
              /\ \E i \in 1..Len(rows) : th[p].body.items[1] = SerializeRow(rows[i])

\* A GET answered 200 that started after a POST had been answered 201, on a
\* table that held another row before.
C11_Witness ==
    \E p, q \in Threads :
        /\ Listed(p) /\ Created(q)
        /\ <<th[q].body.items[1].id, th[q].body.items[1].title>> \in th[p].ackedAtStart
        /\ Len(th[p].body.items) >= 2

\* ------------------------------------------------------------------- C12

\* An INSERT of p has taken an id and is not committed yet.
Pending(p) == pc[p] = "h_commit"

RowsWellFormed ==
    /\ \A i \in 1..Len(rows) : rows[i].title # "" /\ rows[i].id < nextId
    /\ \A i, j \in 1..Len(rows) : i # j => rows[i].id # rows[j].id
    /\ \A p \in Threads :
          Pending(p) =>
              /\ th[p].newId < nextId
              /\ \A i \in 1..Len(rows) : rows[i].id # th[p].newId
              /\ \A q \in Threads \ {p} : Pending(q) => th[q].newId # th[p].newId

RowsKept ==
    /\ Len(rows') >= Len(rows)
    /\ \A i \in 1..Len(rows) : rows'[i] = rows[i]
    /\ \A i \in (Len(rows) + 1)..Len(rows') :
          /\ rows'[i].id < nextId'
          /\ \A j \in 1..Len(rows) : rows[j].id # rows'[i].id
    /\ nextId' > nextId => \E p \in Threads : Pending(p)' /\ th'[p].newId = nextId
    /\ nextId' >= nextId
    /\ dbExists => dbExists'
    /\ TodosTable \in tables => TodosTable \in tables'

\* C12: under every interleaving of GET, POST and init_db a row once in todos
\* stays with the same id, title and created_at, the table and the database are
\* never dropped, ids are pairwise distinct and never given twice, and every
\* row has a non-empty title.
C12_RowsImmutable == []RowsWellFormed /\ [][RowsKept]_vars

\* Two rows are stored, one id was used up by a rolled-back insert or a new row
\* joined an older one, and some request ran init_db to completion.
C12_Witness ==
    /\ Len(rows) >= 2
    /\ \E p \in Threads : Done(p) /\ th[p].initRes = "true"

\* ------------------------------------------------------------------- C13

\* C13: when ensure_db_initialized cannot acquire its connection it calls
\* init_db exactly once, never looks for the table, and as soon as init_db
\* returns (true, with the schema ready, or false) it returns false, so that
\* the handler answers 500 with the error payload before reading the body;
\* the request is answered 500 also when init_db raises.
C13_GuardConnectionFailure ==
    \A p \in Threads :
        th[p].gconn = "failed" =>
            /\ th[p].initCalls = 1
            /\ th[p].gcheck = "none"
            /\ th[p].initRes # "none" =>
                  /\ Done(p)
                  /\ th[p].guardRes = "false"
                  /\ th[p].outcome = "response"
                  /\ th[p].body = ErrorBody
            /\ Done(p) =>
                  /\ th[p].status = StatusServerError
                  /\ th[p].valid = "none"
                  /\ ~th[p].hconn

\* The guard's connection failed, init_db then built the schema and returned
\* true, and the guard still returned false.
C13_Witness ==
    \E p \in Threads :
        /\ Done(p) /\ th[p].gconn = "failed" /\ th[p].initRes = "true"
        /\ th[p].guardRes = "false"
        /\ dbExists /\ TodosTable \in tables

\* ------------------------------------------------------------------- C14

\* C14: once ensure_db_initialized holds a connection, a missing table makes it
\* close that connection (once, and before init_db is entered, so that none of
\* its connections is open while init_db runs) and return what init_db
\* returns; a table that is present makes it return true without calling
\* init_db; a database error during the check makes it return false without
\* calling init_db.
C14_GuardWithConnection ==
    \A p \in Threads :
        /\ InInit(p) => "guard" \notin th[p].conns
        /\ th[p].gcloses <= 1
        /\ th[p].gcheck # "none" => th[p].gconn = "ok"
        /\ th[p].gcheck = "absent" =>
              /\ pc[p] = "g_close" =>
                    (th[p].initCalls = 0 /\ th[p].gcloses = 0 /\ "guard" \in th[p].conns)
              /\ pc[p] # "g_close" =>
                    (th[p].initCalls = 1 /\ th[p].gcloses = 1 /\ "guard" \notin th[p].conns)
              /\ (th[p].guardRes # "none" \/ th[p].initRes # "none")
                    => th[p].guardRes = th[p].initRes
        /\ th[p].gcheck = "present" =>
              th[p].initCalls = 0 /\ th[p].guardRes = "true"
        /\ th[p].gcheck = "error" =>
              th[p].initCalls = 0 /\ th[p].guardRes = "false"

\* One guard found the table missing and passed on init_db's true, the request
\* then succeeded; another passed on init_db's false.
C14_Witness ==
    /\ \E p \in Threads : Done(p) /\ th[p].gcheck = "absent" /\ th[p].initRes = "true"
                                  /\ th[p].guardRes = "true" /\ Success(p)
    /\ \E p \in Threads : Done(p) /\ th[p].gcheck = "absent" /\ th[p].initRes = "false"
                                  /\ th[p].guardRes = "false"

\* ------------------------------------------------------------------- C15

\* The counters of a call: n - 1 waits when it returns None.
GcCounts ==
    /\ gc.attempts <= gc.retries
    /\ gc.attempts = gc.failed + (IF gc.result = "conn" THEN 1 ELSE 0)
    /\ gc.result = "running" => (gc.failed < gc.retries /\ gc.waits = gc.failed)
    /\ gc.result = "conn" => gc.waits = gc.failed
    /\ gc.result = "none" => (gc.failed = gc.retries /\ gc.waits = gc.retries - 1)

\* C15: get_db_connection(retries = n), n >= 1, makes at most n attempts,
\* returns at the first successful attempt without a further attempt or wait,
\* returns None only after exactly n failed attempts, and waits once after
\* every failed attempt but the n-th (n - 1 waits when all n attempts fail).
C15_RetryLoop ==
    /\ [](gc.retries >= 1 => GcCounts)
    /\ [][gc.result \in {"conn", "none"} => gc' = gc]_vars

\* The default five attempts: connected at the third, after two waits.
C15_Witness ==
    gc.retries = Retries /\ gc.result = "conn" /\ gc.attempts = 3 /\ gc.waits = 2

\* ------------------------------------------------------------------- C16

Stepped(p) == pc'[p] # pc[p] \/ th'[p] # th[p]

\* A true result means that the database and the table are there.
C16_TrueResult ==
    \A p \in Threads : th[p].initRes = "true" => (dbExists /\ TodosTable \in tables)

C16_InitStep ==
    \A p \in Threads :
        Stepped(p) =>
            \* a true result is only produced by the commit of the second create
            /\ (th'[p].initRes = "true" /\ th[p].initRes # "true")
                  => (pc[p] = "i_committable" /\ dbExists /\ TodosTable \in tables)
            \* the connection was not acquired: false, no statement, no further call
            /\ (pc[p] = "connect" /\ th[p].site = "init" /\ pc'[p] # "i_createdb")
                  => \/ (pc'[p] = "connect" /\ th'[p].site = "init"
                            /\ th'[p].connCalls = th[p].connCalls)
                     \/ /\ th'[p].initRes = "false"
                        /\ pc'[p] \notin {"connect"} \cup InitLabels
                        /\ th'[p].initCalls <= th[p].initCalls
                        /\ th'[p].connCalls <= th[p].connCalls
                  /\ UNCHANGED dbvars
            \* the first create and its commit: either completed and the next
            \* step of init_db follows, or the call ends here without a true
            \* result and without touching the table
            /\ pc[p] = "i_createdb"
                  => \/ (pc'[p] = "i_commitdb" /\ dbExists')
                     \/ /\ pc'[p] \notin {"connect"} \cup InitLabels
                        /\ th'[p].initRes # "true"
                        /\ tables' = tables
            /\ pc[p] = "i_commitdb"
                  => \/ pc'[p] = "i_createtable"
                     \/ /\ pc'[p] \notin {"connect"} \cup InitLabels
                        /\ th'[p].initRes = "false"
                  /\ UNCHANGED dbvars
            \* the second create and its commit
            /\ pc[p] = "i_createtable"
                  => \/ (pc'[p] = "i_committable" /\ TodosTable \in tables')
                     \/ /\ pc'[p] \notin {"connect"} \cup InitLabels
                        /\ th'[p].initRes = "false"
            /\ pc[p] = "i_committable"
                  => /\ pc'[p] \notin {"connect"} \cup InitLabels \/ th'[p].initRes = "true"
                     /\ th'[p].initRes \in {"true", "false"}
                     /\ th'[p].initRes = "false" => th'[p].initFault
                     /\ UNCHANGED dbvars

\* C16: init_db returns true only from the commit that follows the second
\* create, after the first create and its commit had completed; when its
\* connection cannot be acquired it returns false without a statement and
\* without calling itself or get_db_connection again; an error at either
\* statement ends the call with no later statement and no true result.
C16_InitDbResult == []C16_TrueResult /\ [][C16_InitStep]_vars

\* init_db, called by a guard on a server without the database, created the
\* database, failed at the table and returned false: the table is not there.
C16_Witness ==
    \E p \in Threads :
        /\ Done(p) /\ th[p].initFrom = "nodb" /\ th[p].initRes = "false"
        /\ dbExists /\ TodosTable \notin tables

\* ------------------------------------------------------------------- C17

HandlerSqlLabels == {"h_select", "h_insert", "h_commit", "h_readback", "c_count"}

C17_ReadyMeansSchema ==
    \A p \in Threads :
        /\ th[p].guardRes = "true" => ~TableMissing(dbExists, tables)
        /\ pc[p] \in HandlerSqlLabels => ~TableMissing(dbExists, tables)
        /\ th[p].hsql => ~TableMissing(dbExists, tables)

\* C17: whenever ensure_db_initialized has returned true the database and the
\* todos table exist, then and in every later state (no step removes them),
\* and no handler is about to issue, or has issued, a SELECT or INSERT on
\* todos while the table does not exist.
C17_GuardTrueSound ==
    /\ []C17_ReadyMeansSchema
    /\ [][(dbExists => dbExists') /\ tables \subseteq tables']_vars

\* A POST whose guard found the table missing and had init_db create it is
\* about to issue its INSERT.
C17_Witness ==
    \E p \in Threads :
        /\ pc[p] = "h_insert" /\ th[p].gcheck = "absent" /\ th[p].initFrom = "db"
        /\ th[p].guardRes = "true"

\* ------------------------------------------------------------------- C18

\* C18: a finished POST has inserted a row exactly when it was answered 201.
C18_InsertOnlyWith201 ==
    \A p \in Threads :
        (Done(p) /\ th[p].method = "POST")
            => (th[p].inserted = 1 <=> (th[p].outcome = "response"
                                         /\ th[p].status = StatusCreated))

\* ------------------------------------------------------------------- C19

ServerErrors ==
    REQUEST_COUNT[<<"GET", StatusServerError>>] + REQUEST_COUNT[<<"POST", StatusServerError>>]

\* C19: with every request meeting a reachable server and no failing
\* statement, whatever startup did, the schema exists once a request has been
\* handled, at most one request is answered 500, and a GET or valid POST
\* whose guard found the table succeeds.
C19_SelfHealing ==
    /\ (\E p \in Threads : Done(p)) => ~TableMissing(dbExists, tables)
    /\ ServerErrors <= 1
    /\ \A p \in Threads :
          (Done(p) /\ th[p].gcheck = "present" /\ th[p].valid \notin {"rejected", "raised"}) => Success(p)

\* ------------------------------------------------------------------- C20

\* The position of a request in its handler, in program order.
Stage(label, site) ==
    CASE label = "idle" -> 0
      [] label = "connect" /\ site = "guard" -> 1
      [] label = "g_check" -> 2
      [] label = "g_close" -> 3
      [] label = "connect" /\ site = "init" -> 4
      [] label = "i_createdb" -> 5
      [] label = "i_commitdb" -> 6
      [] label = "i_createtable" -> 7
      [] label = "i_committable" -> 8
      [] label = "validate" -> 9
      [] label = "connect" /\ site = "handler" -> 10
      [] label \in {"h_select", "h_insert"} -> 11
      [] label = "h_commit" -> 12
      [] label = "h_readback" -> 13
      [] label = "connect" /\ site = "count" -> 14
      [] label = "c_count" -> 15
      [] label = "c_set" -> 16
      [] label = "h_respond" -> 17
      [] OTHER -> 18

C20_Bounds ==
    \A p \in Threads :
        /\ th[p].connCalls <= 4
        /\ pc[p] = "connect" => th[p].attempt < Retries
        /\ Retries * th[p].connCalls <= 20
        /\ th[p].gconn = "failed" => (th[p].connCalls <= 2 /\ Retries * th[p].connCalls <= 10)
        /\ InFlight(p) => ENABLED ProcStep(p)
        /\ Done(p) => (th[p].outcome # "none" /\ th[p].status # 0)

C20_Progress ==
    \A p \in Threads :
        (InFlight(p) /\ Stepped(p))
            => \/ Stage(pc'[p], th'[p].site) > Stage(pc[p], th[p].site)
               \/ /\ pc[p] = "connect" /\ pc'[p] = "connect"
                  /\ th'[p].site = th[p].site
                  /\ th'[p].connCalls = th[p].connCalls
                  /\ th'[p].attempt = th[p].attempt + 1

\* C20: whatever the database does, a request in flight can always take its
\* next step, each step moves it forward in its handler or to the next of at
\* most Retries attempts of the same get_db_connection call, and it ends with
\* a response; it calls get_db_connection at most 4 times (at most 20
\* attempts), and at most twice (10 attempts) when the guard's call failed.
C20_RequestTerminates == []C20_Bounds /\ [][C20_Progress]_vars

\* One request went through guard, init_db, handler and count (four calls);
\* another stopped after the guard's and init_db's calls.
C20_Witness ==
    /\ \E p \in Threads : Done(p) /\ th[p].connCalls = 4 /\ Success(p)
    /\ \E p \in Threads : Done(p) /\ th[p].gconn = "failed" /\ th[p].connCalls = 2

====
